---- MODULE Spec2Model ----
(***************************************************************************)
(* RAG_Document_Loader: the plugin registry (plugin_loader.py), the        *)
(* orchestrator pass (main.py), the tabular-source plugin                  *)
(* (plugins/migration_tracker/migration_tracker.py) and the version store  *)
(* (file_version_tracker.py), as one state machine.                        *)
(***************************************************************************)
EXTENDS Integers, Sequences, FiniteSets, TLC

(* ------------------------------ bounds -------------------------------- *)

\* longest manifest drawn
MaxEntries == 2
\* timestamps are 1..MaxTime
MaxTime == 2
\* rows of the worksheet that pass the row-identity heuristic
MaxRows == 1
\* files in the corpus before the first upload
MaxFiles == 2
\* successive calls of upload_file
MaxCalls == 2
\* successive operations on the version store
MaxOps == 2

(* --------------------------- program constants ------------------------ *)

TRACKED_FILENAME == "VCRM Migration - Tracker"
OUTPUT_FILEPATH == "VCRM Migration - Tracker.md"

\* absent values: Python None for a path, a marker row that does not exist
None == 0

Times == 1..MaxTime
StoreKeys == {TRACKED_FILENAME, OUTPUT_FILEPATH}

(* ------------------------------ manifest ------------------------------ *)

\* What an entry's path/classname resolve to.  The first four are this
\* repository's cases; the last two are plugin classes supplied from outside
\* it whose constructor accepts the registry's (config, tracker) call:
\*   NoModule          importlib.import_module(config.path) raises
\*   NoClass           the module has no attribute config.classname
\*   MigrationTracker  plugins.migration_tracker: __init__(self) takes no
\*                     further argument, so the registry's call raises
\*   TestPlugin        TestPluginOne / TestPluginTwo: constructs, has no run()
\*   TrackerSubclass   a MigrationTracker subclass with an accepting
\*                     constructor; run() is MigrationTracker.run
\*   OtherPlugin       any other DocumentLoaderPlugin; run() returns any
\*                     PluginResult or raises
ClassKinds ==
    {"NoModule", "NoClass", "MigrationTracker", "TestPlugin",
     "TrackerSubclass", "OtherPlugin"}

\* PluginConfig (plugin_loader.py:13-20).  The name of an entry is its
\* position in the manifest (names are unique); logger / tracker say whether
\* the class's constructor calls set_logger / set_file_version_tracker.
PluginConfig ==
    [classname : ClassKinds, enabled : BOOLEAN, logger : BOOLEAN, tracker : BOOLEAN]

\* entries whose wiring fields matter are the enabled TrackerSubclass ones
\* (a disabled entry's constructor is never called); the others carry the one
\* wiring their class has
WellFormedEntry(e) ==
    CASE e.classname = "TrackerSubclass" -> e.enabled \/ (e.logger /\ e.tracker)
      [] e.classname = "TestPlugin" -> ~e.logger /\ e.tracker
      [] OTHER -> ~e.logger /\ ~e.tracker

Manifests ==
    UNION { { m \in [1..n -> PluginConfig] : \A i \in 1..n : WellFormedEntry(m[i]) }
            : n \in 0..MaxEntries }

VARIABLES
    manifestState,   \* "ok", "missing" (no such file) or "malformed" (YAML error)
    manifest,        \* the parsed entries, in declaration order
    store,           \* the version store's table: key -> marker or None
    srcTime,         \* the sheet's last-update timestamp
    files,           \* the temp files of this pass that exist
    pass,            \* "first": a pass of main(); "rerun": the pass after it
    pc,              \* main()'s position
    imported,        \* entries whose module import was attempted
    constructed,     \* entries whose class was called
    loaded_plugins,  \* PluginLoader.loaded_plugins: names in insertion order
    todo,            \* names the for loop has still to visit
    cur,             \* the plugin of the current iteration, or None
    status,          \* per plugin of this pass: what main() did with it
    versionUpdates,  \* keys set_last_version was called with in this pass
    prev             \* what the previous pass left: uploaded names, source time

\* the version store on its own: the database clock and the last two calls
\* made on the tracker
VARIABLES
    now,             \* what NOW() evaluates to
    ops              \* the call before the last one, and the last one

\* the variables of main()'s pass
mainVars ==
    <<manifestState, manifest, srcTime, files, pass, pc,
      imported, constructed, loaded_plugins, todo, cur, status,
      versionUpdates, prev>>

\* MigrationTracker.run() on its own: one call and what it did
VARIABLES
    runIn,           \* the instance, the sheet time and the environment
    runOut           \* the outcome and the calls made, once run() has ended

storeVars == <<now, ops>>
runVars == <<runIn, runOut>>

\* corpus_manager.upload_file on its own
VARIABLES
    corpus,          \* the files of the RAG corpus
    nextName,        \* the resource name the service gives the next file
    tenacity,        \* TENACITY_AVAILABLE
    call             \* the call of upload_file in progress, or the last one

uploadVars == <<corpus, nextName, tenacity, call>>

\* the connections of FileVersionTracker
VARIABLES
    conns,           \* the connections that are open
    dbcall           \* the operation in progress, or the last one

connVars == <<conns, dbcall>>

\* the variables main()'s pass leaves alone
auxVars == <<storeVars, runVars, uploadVars, connVars>>

vars == <<mainVars, store, auxVars>>

(* --------------------------- version store ---------------------------- *)

\* FileVersionTracker.get_last_version: the stored marker of filename, None
\* when no row exists; -1 stands for the exception psycopg2.connect raises
\* when the store cannot be reached.
get_last_version(table, filename, storeUp) ==
    IF storeUp THEN table[filename] ELSE -1

\* is_new_version_available comparing with >= instead of >
is_new_version_availableOrEqual(table, filename, new_version_timestamp, storeUp) ==
    LET last_version == get_last_version(table, filename, storeUp) IN
    IF new_version_timestamp \notin Times THEN "raise"
    ELSE IF last_version = -1 THEN "raise"
    ELSE IF last_version = None THEN "true"
    ELSE IF new_version_timestamp >= last_version THEN "true" ELSE "false"

\* is_new_version_available answering "no new version" to a candidate that
\* does not parse
is_new_version_availableLenient(table, filename, new_version_timestamp, storeUp) ==
    LET last_version == get_last_version(table, filename, storeUp) IN
    IF new_version_timestamp \notin Times THEN "false"
    ELSE IF last_version = -1 THEN "raise"
    ELSE IF last_version = None THEN "true"
    ELSE IF new_version_timestamp > last_version THEN "true" ELSE "false"

\* FileVersionTracker.is_new_version_available: "true" / "false", or "raise"
\* (RuntimeError) when anything inside its try block failed.
is_new_version_available(table, filename, new_version_timestamp, storeUp) ==
    LET last_version == get_last_version(table, filename, storeUp) IN
    IF new_version_timestamp \notin Times THEN "raise"
    ELSE IF last_version = -1 THEN "raise"
    ELSE IF last_version = None THEN "true"
    ELSE IF new_version_timestamp > last_version THEN "true" ELSE "false"

\* the message of the RuntimeError the except clause of
\* is_new_version_available raises, whatever failed inside its try block
InvalidTimestampError == "RuntimeError: The given timestamp string is not valid"

\* the exception psycopg2.connect raises out of get_connection
OperationalError == "psycopg2.OperationalError"

\* the exception a call of is_new_version_available ends with, "none" when it
\* returns
is_new_version_error(table, filename, new_version_timestamp, storeUp) ==
    IF is_new_version_available(table, filename, new_version_timestamp, storeUp) = "raise"
    THEN InvalidTimestampError
    ELSE "none"

\* FileVersionTracker.set_last_version: the table after
\* UPDATE ... SET tracker = NOW() WHERE filename = %s and the commit.  A
\* key without a row matches nothing; the version argument is not used.
\* With the store unreachable the call raises and the table is as before.
set_last_version(table, filename, version, clock, storeUp) ==
    IF storeUp
    THEN [table EXCEPT ![filename] = IF @ = None THEN None ELSE clock]
    ELSE table

\* candidates handed to is_new_version_available: None stands for every
\* value datetime.fromisoformat rejects
Candidates == {None} \cup Times

\* a call made on the tracker: the operation, its arguments, whether the
\* store could be reached, what came back, and the table before the call
NoOp ==
    [op |-> "none", name |-> "", arg |-> None, up |-> TRUE, result |-> "none",
     marker |-> None, error |-> "none", before |-> [k \in StoreKeys |-> None]]

(* ---------------------------- PluginResult ---------------------------- *)

NoMessage == ""

\* what status holds before run() has returned a result
NoResult ==
    [success |-> FALSE, display_name |-> "", file_path |-> None,
     error_message |-> NoMessage, requires_version_update |-> FALSE]

\* DocumentLoaderPlugin.create_result with the dataclass defaults of
\* PluginResult: file_path None, error_message None,
\* requires_version_update True.
create_result(success, display_name, file_path, error_message, requires_version_update) ==
    [success |-> success, display_name |-> display_name, file_path |-> file_path,
     error_message |-> error_message,
     requires_version_update |-> requires_version_update]

\* what a call of run() gives its caller; created is the temp file it wrote
\* and fresh what should_process answered ("none" when it was not asked)
Raised == [raised |-> TRUE, result |-> NoResult, created |-> None, fresh |-> "none"]
Returned(result, created, fresh) ==
    [raised |-> FALSE, result |-> result, created |-> created, fresh |-> fresh]

(* -------------------------- MigrationTracker -------------------------- *)

\* where the environment makes run() fail: credential acquisition, sheet
\* lookup, reading the last-update time, the worksheet fetch, temp-file
\* creation
Faults == {"none", "creds", "sheet", "time", "fetch", "tmp"}

RunEnvs == [fault : Faults, rows : 0..MaxRows, storeUp : BOOLEAN]

\* MigrationTracker.convert_content on a loaded DataFrame with `rows` rows
\* that pass the heuristic: a leading newline, then the blocks joined by the
\* separator.
RECURSIVE JoinBlocks(_)
JoinBlocks(n) ==
    IF n = 0 THEN <<>>
    ELSE IF n = 1 THEN <<"block">>
    ELSE JoinBlocks(n - 1) \o <<"---", "block">>

convert_content(rows) == <<"\n">> \o JoinBlocks(rows)

\* the result of the except clause of run()
ExceptResult == create_result(FALSE, OUTPUT_FILEPATH, None, "error", TRUE)

\* DocumentLoaderPlugin.should_process on an instance: AttributeError
\* ("raise") when no tracker was attached.
should_process(self, table, filename, current_version, storeUp) ==
    IF ~self.tracker THEN "raise"
    ELSE is_new_version_available(table, filename, current_version, storeUp)

\* the result of the "No new version, skipping" branch of run(), in an earlier
\* draft's form: a failure
SkipResultAsFailure == create_result(FALSE, OUTPUT_FILEPATH, None, NoMessage, TRUE)

\* the result of the "No new version, skipping" branch of run()
SkipResult == create_result(TRUE, OUTPUT_FILEPATH, None, NoMessage, FALSE)

\* MigrationTracker.run on instance self; path is the name a new temp file
\* would get.  The first statement logs through self.logger outside the try
\* block; everything after it is inside.  create_result(success=False,
\* error_message=...) of the "No content generated" branch lacks the required
\* display_name, so it raises TypeError into the except clause.
run(self, table, sheetTime, env, path) ==
    IF ~self.logger THEN Raised
    ELSE IF env.fault \in {"creds", "sheet", "time"}
    THEN Returned(ExceptResult, None, "none")
    ELSE
      LET fresh == should_process(self, table, TRACKED_FILENAME, sheetTime, env.storeUp) IN
      IF fresh = "raise" THEN Returned(ExceptResult, None, fresh)
      ELSE IF fresh = "true" THEN
        IF env.fault = "fetch" THEN Returned(ExceptResult, None, fresh)
        ELSE IF Len(convert_content(env.rows)) > 0 THEN
          IF env.fault = "tmp" THEN Returned(ExceptResult, None, fresh)
          ELSE Returned(create_result(TRUE, OUTPUT_FILEPATH, path, NoMessage, TRUE),
                        path, fresh)
        ELSE Returned(ExceptResult, None, fresh)
      ELSE Returned(SkipResult, None, fresh)

\* the calls of run() that cost: the worksheet fetch, the transformation,
\* the temp file
Expensive == {"get_all_values", "convert_content", "create_tmp_file_from_content"}

\* the calls run() makes up to and including the freshness check
GateSteps == <<"get_gsheet_client", "get_sheet", "get_lastUpdateTime", "should_process">>

\* a run() that fetches the worksheet before it asks the version store
run_stepsFetchFirst(self, table, sheetTime, env) ==
    IF ~self.logger THEN <<>>
    ELSE IF env.fault = "creds" THEN SubSeq(GateSteps, 1, 1)
    ELSE IF env.fault = "sheet" THEN SubSeq(GateSteps, 1, 2)
    ELSE IF env.fault = "time" THEN SubSeq(GateSteps, 1, 3)
    ELSE SubSeq(GateSteps, 1, 3) \o <<"get_all_values", "should_process">>

\* MigrationTracker.run: the calls it makes, in order, up to the one that
\* raised or the return.
run_steps(self, table, sheetTime, env) ==
    IF ~self.logger THEN <<>>
    ELSE IF env.fault = "creds" THEN SubSeq(GateSteps, 1, 1)
    ELSE IF env.fault = "sheet" THEN SubSeq(GateSteps, 1, 2)
    ELSE IF env.fault = "time" THEN SubSeq(GateSteps, 1, 3)
    ELSE IF should_process(self, table, TRACKED_FILENAME, sheetTime, env.storeUp) # "true"
    THEN GateSteps
    ELSE IF env.fault = "fetch" THEN GateSteps \o <<"get_all_values">>
    ELSE IF Len(convert_content(env.rows)) > 0
    THEN GateSteps \o <<"get_all_values", "convert_content", "create_tmp_file_from_content">>
    ELSE GateSteps \o <<"get_all_values", "convert_content">>

\* the instances run() is called on: with or without a logger, a tracker
Instances == [logger : BOOLEAN, tracker : BOOLEAN]

NoRunIn == [self |-> [logger |-> FALSE, tracker |-> FALSE], sheetTime |-> None,
            env |-> [fault |-> "none", rows |-> 0, storeUp |-> FALSE]]
NoRunOut == [ended |-> FALSE, out |-> Raised, steps |-> <<>>]

(* --------------------------- corpus upload ---------------------------- *)

\* the display names files are uploaded under
DisplayNames == {OUTPUT_FILEPATH, "other.md"}

\* the local paths upload_file is given
LocalPaths == 1..2

\* a file of the corpus: its resource name and its display name
RagFile(name, display_name) == [name |-> name, display_name |-> display_name]

\* what a call of the rag client can raise: two Google API errors (a 503 and
\* a 403), a ConnectionError, and an error of neither class
ErrorClasses == {"ServiceUnavailable", "PermissionDenied", "ConnectionError", "OSError"}

\* the subclasses of google.api_core.exceptions.GoogleAPIError among them
GoogleAPIError == {"ServiceUnavailable", "PermissionDenied"}

\* stop_after_attempt(3)
MaxAttempts == 3

\* retry=retry_if_exception_type((GoogleAPIError, ConnectionError)); the
\* fallback decorator, used when tenacity is not installed, retries nothing
retry_if_exception_type(available, e) ==
    available /\ e \in GoogleAPIError \cup {"ConnectionError"}

\* a loop that takes every listed file for an existing one
MatchesAny(listed, file_name) == listed

\* the listed files the loop of upload_file stops at
Matches(listed, file_name) == { f \in listed : f.display_name = file_name }

\* a call of the rag client, as upload_file makes it
RagCall(fn, name, path, display_name) ==
    [fn |-> fn, name |-> name, path |-> path, display_name |-> display_name]

NoCall == [pc |-> "idle", d |-> "", p |-> None, attempt |-> 0, log |-> <<>>,
           listing |-> {}, errs |-> <<>>, before |-> {}, result |-> None,
           error |-> "none", n |-> 0]

\* an attempt ended by exception e: the except clause logs and re-raises,
\* and the retry decorator starts the next attempt or lets e through
AfterFailure(c, available, e) ==
    IF retry_if_exception_type(available, e) /\ c.attempt < MaxAttempts
    THEN [c EXCEPT !.pc = "list", !.attempt = @ + 1, !.errs = Append(@, e),
                   !.log = <<>>, !.listing = {}]
    ELSE [c EXCEPT !.pc = "raised", !.errs = Append(@, e), !.error = e]

(* ------------------------- store connections ------------------------- *)

\* the three operations of FileVersionTracker
StoreOps == {"get_last_version", "set_last_version", "is_new_version_available"}

NoDbCall == [pc |-> "idle", op |-> "none", conn |-> None, failed |-> FALSE,
             first |-> 0, made |-> 0, n |-> 0]

\* a get_connection that closes only when the body ended without exception
close_connectionOnSuccess(open, conn, failed) ==
    IF failed THEN open ELSE open \ {conn}

\* the finally clause of get_connection: conn.close(), whether the body of
\* the with statement ended normally or by an exception
close_connection(open, conn, failed) == open \ {conn}

(* ------------------------------ registry ------------------------------ *)

Names == 1..Len(manifest)

\* PluginLoader._load_plugin: TRUE when an instance is returned, FALSE when
\* the except clause returned None.
ModuleImports(config) == config.classname # "NoModule"
ClassFound(config) == ModuleImports(config) /\ config.classname # "NoClass"
Constructs(config) == ClassFound(config) /\ config.classname # "MigrationTracker"

load_plugin(config) == Constructs(config)

\* load_config that logs the error and returns
load_configSwallows(state) == TRUE

\* PluginLoader.load_config: TRUE when it returns, FALSE when it raises
\* (FileNotFoundError handler, YAMLError handler; both re-raise).
load_config(state) == state = "ok"

\* a loop that does not test config.enabled
IsEnabledAlways(config) == TRUE

\* the test `if not config.enabled: continue` of load_plugins
IsEnabled(config) == config.enabled

\* the entries the loop of load_plugins hands to _load_plugin
EnabledEntries(m) == { i \in 1..Len(m) : IsEnabled(m[i]) }

\* a loop of load_plugins that lets the first failure end the loading
RECURSIVE LoadedFromAborting(_, _)
LoadedFromAborting(m, i) ==
    IF i > Len(m) THEN <<>>
    ELSE IF ~IsEnabled(m[i]) THEN LoadedFromAborting(m, i + 1)
    ELSE IF load_plugin(m[i]) THEN <<i>> \o LoadedFromAborting(m, i + 1)
    ELSE <<>>

\* a registry that hands its plugins over last-declared first
RECURSIVE LoadedFromReversed(_, _)
LoadedFromReversed(m, i) ==
    IF i > Len(m) THEN <<>>
    ELSE IF IsEnabled(m[i]) /\ load_plugin(m[i]) THEN LoadedFromReversed(m, i + 1) \o <<i>>
    ELSE LoadedFromReversed(m, i + 1)

\* the keys of loaded_plugins after the loop of load_plugins from entry i on,
\* in insertion order
RECURSIVE LoadedFrom(_, _)
LoadedFrom(m, i) ==
    IF i > Len(m) THEN <<>>
    ELSE IF IsEnabled(m[i]) /\ load_plugin(m[i]) THEN <<i>> \o LoadedFrom(m, i + 1)
    ELSE LoadedFrom(m, i + 1)

(* ----------------------------- main() --------------------------------- *)

Pending ==
    [runs |-> 0, raised |-> FALSE, returned |-> FALSE, result |-> NoResult,
     fresh |-> "none", created |-> None,
     uploads |-> 0, uploadArgs |-> <<"", None>>, uploadOk |-> FALSE,
     unlinks |-> 0, unlinkOk |-> FALSE, state |-> "Pending"]

\* an except clause around the whole for loop: an exception ends the pass
AfterExceptionAborts(rest) == <<>>

\* main.py:44-45: the except clause is inside the for loop, so after an
\* exception the loop goes on with the rest of the keys
AfterException(rest) == rest

\* a loop body that goes on to upload_file whatever run() returned
AfterRunAlwaysUpload(result) == "Running"

\* main.py:28-31 with the tests in the other order
AfterRunPathFirst(result) ==
    IF result.file_path # None THEN "Running"
    ELSE IF result.success = FALSE THEN "FailedSoft"
    ELSE "Skipped"

\* main.py:28-31: what the success test and the file_path test make of a
\* returned result
AfterRun(result) ==
    IF result.success = FALSE THEN "FailedSoft"
    ELSE IF result.file_path # None THEN "Running"
    ELSE "Skipped"

\* cleanup whatever the upload did
AfterUploadAlwaysUnlink(ok) == "unlink"

\* main.py:36-41: the unlink follows a returned upload_file; a raised one
\* goes to the except clause
AfterUpload(ok) == IF ok THEN "unlink" ELSE "next"

NoPrev == [uploaded |-> {}, srcTime |-> None]

\* what the variables outside main()'s pass hold while main() runs
RunIdle ==
    /\ runIn = NoRunIn
    /\ runOut = NoRunOut

UploadIdle ==
    /\ corpus = {}
    /\ nextName = 1
    /\ tenacity = TRUE
    /\ call = NoCall

ConnIdle ==
    /\ conns = {}
    /\ dbcall = NoDbCall

AuxIdle ==
    /\ now = 1
    /\ ops = <<NoOp, NoOp>>
    /\ RunIdle
    /\ UploadIdle
    /\ ConnIdle

Init ==
    /\ manifestState \in {"ok", "missing", "malformed"}
    /\ manifest \in Manifests
    /\ manifestState = "missing" => manifest = <<>>
    /\ store \in [StoreKeys -> {None} \cup Times]
    /\ store[OUTPUT_FILEPATH] = None
    /\ srcTime \in Times
    /\ files = {}
    /\ pass = "first"
    /\ pc = "load"
    /\ imported = {}
    /\ constructed = {}
    /\ loaded_plugins = <<>>
    /\ todo = <<>>
    /\ cur = None
    /\ status = [n \in Names |-> Pending]
    /\ versionUpdates = {}
    /\ prev = NoPrev
    /\ AuxIdle

\* main.py:15-17.  load_config raises on a missing or unparsable manifest
\* and nothing in main() catches it; otherwise every enabled entry goes
\* through _load_plugin.
LoadPlugins ==
    /\ pc = "load"
    /\ IF ~load_config(manifestState)
       THEN /\ pc' = "fatal"
            /\ UNCHANGED <<imported, constructed, loaded_plugins, todo>>
       ELSE /\ imported' = EnabledEntries(manifest)
            /\ constructed' = { i \in EnabledEntries(manifest) : ClassFound(manifest[i]) }
            /\ loaded_plugins' = LoadedFrom(manifest, 1)
            /\ todo' = LoadedFrom(manifest, 1)
            /\ pc' = "next"
    /\ UNCHANGED <<manifestState, manifest, store, srcTime, files, pass,
                   cur, status, versionUpdates, prev>>
    /\ UNCHANGED auxVars

\* the results another plugin's run() may return
OtherResults ==
    { create_result(s, "other.md", None, IF s THEN NoMessage ELSE "error", TRUE)
        : s \in BOOLEAN }

\* the temp file a plugin creates in this pass: one per plugin, named apart
\* from every other
TempPath(name) == name

\* plugin_instance.run() of main.py:25 on the instance built from entry
\* config: the outcomes the call can have; path is the name a temp file
\* created by the call gets (NamedTemporaryFile: a fresh one).
RunOutcomes(config, path) ==
    CASE config.classname = "TestPlugin" -> {Raised}
      [] config.classname = "TrackerSubclass" ->
            { run(config, store, srcTime, env, path) : env \in RunEnvs }
      [] OTHER ->
            {Raised}
            \cup { Returned(r, None, "none") : r \in OtherResults }
            \cup { Returned([r EXCEPT !.file_path = path], path, "none")
                     : r \in OtherResults }

\* main.py:19-31 for one plugin: the call of run(), the success test and the
\* file_path test.  An exception goes to the except clause of main.py:44,
\* which ends the iteration.
RunPlugin ==
    /\ pc = "next"
    /\ todo # <<>>
    /\ LET name == Head(todo) IN
       \E out \in RunOutcomes(manifest[name], TempPath(name)) :
          /\ cur' = name
          /\ files' = IF out.created # None THEN files \cup {out.created} ELSE files
          /\ IF out.raised
             THEN /\ status' = [status EXCEPT ![name].runs = @ + 1,
                                              ![name].raised = TRUE,
                                              ![name].state = "FailedHard"]
                  /\ todo' = AfterException(Tail(todo))
                  /\ pc' = "next"
             ELSE /\ status' = [status EXCEPT ![name].runs = @ + 1,
                                              ![name].returned = TRUE,
                                              ![name].result = out.result,
                                              ![name].fresh = out.fresh,
                                              ![name].created = out.created,
                                              ![name].state = AfterRun(out.result)]
                  /\ todo' = Tail(todo)
                  /\ pc' = IF AfterRun(out.result) = "Running" THEN "upload" ELSE "next"
    /\ UNCHANGED <<manifestState, manifest, store, srcTime, pass, imported,
                   constructed, loaded_plugins, versionUpdates, prev>>
    /\ UNCHANGED auxVars

\* main.py:33-37: upload_file(result.display_name, result.file_path) returns
\* or raises; an exception goes to the except clause.
Upload ==
    /\ pc = "upload"
    /\ \E ok \in BOOLEAN :
          /\ status' = [status EXCEPT ![cur].uploads = @ + 1,
                                      ![cur].uploadArgs =
                                          <<status[cur].result.display_name,
                                            status[cur].result.file_path>>,
                                      ![cur].uploadOk = ok,
                                      ![cur].state = IF ok THEN @ ELSE "UploadFailed"]
          /\ pc' = AfterUpload(ok)
          /\ todo' = IF ok THEN todo ELSE AfterException(todo)
    /\ UNCHANGED <<manifestState, manifest, store, srcTime, files, pass,
                   imported, constructed, loaded_plugins, cur,
                   versionUpdates, prev>>
    /\ UNCHANGED auxVars

\* main.py:40-41: Path(file_path).unlink(missing_ok=True) removes the file or
\* raises (OSError); an exception goes to the except clause.
Unlink ==
    /\ pc = "unlink"
    /\ \E ok \in BOOLEAN :
          /\ files' = IF ok THEN files \ {status[cur].result.file_path} ELSE files
          /\ status' = [status EXCEPT ![cur].unlinks = @ + 1,
                                      ![cur].unlinkOk = ok,
                                      ![cur].state = IF ok THEN "Uploaded" ELSE "UnlinkFailed"]
          /\ pc' = "next"
          /\ todo' = IF ok THEN todo ELSE AfterException(todo)
    /\ UNCHANGED <<manifestState, manifest, store, srcTime, pass,
                   imported, constructed, loaded_plugins, cur,
                   versionUpdates, prev>>
    /\ UNCHANGED auxVars

\* main.py:19: the for loop has visited every key; main() returns.
EndPass ==
    /\ pc = "next"
    /\ todo = <<>>
    /\ pc' = "done"
    /\ cur' = None
    /\ UNCHANGED <<manifestState, manifest, store, srcTime, files, pass,
                   imported, constructed, loaded_plugins, todo, status,
                   versionUpdates, prev>>
    /\ UNCHANGED auxVars

\* the sheet is edited between two passes: its last-update time grows
SheetEdited ==
    /\ pc = "done"
    /\ srcTime < MaxTime
    /\ srcTime' = srcTime + 1
    /\ UNCHANGED <<manifestState, manifest, store, files, pass, pc,
                   imported, constructed, loaded_plugins, todo, cur, status,
                   versionUpdates, prev>>
    /\ UNCHANGED auxVars

\* the process is started again (main.py:48-50): a new tracker, a new loader,
\* new plugin instances; the store and the sheet are what the earlier pass
\* left.  Its leftover temp files are not looked at again.
NewPass ==
    /\ pc = "done"
    /\ pass = "first"
    /\ pass' = "rerun"
    /\ prev' = [uploaded |-> { n \in Names : status[n].uploadOk }, srcTime |-> srcTime]
    /\ pc' = "load"
    /\ imported' = {}
    /\ constructed' = {}
    /\ loaded_plugins' = <<>>
    /\ todo' = <<>>
    /\ cur' = None
    /\ status' = [n \in Names |-> Pending]
    /\ versionUpdates' = {}
    /\ files' = {}
    /\ UNCHANGED <<manifestState, manifest, store, srcTime>>
    /\ UNCHANGED auxVars

Next ==
    \/ LoadPlugins
    \/ RunPlugin
    \/ Upload
    \/ Unlink
    \/ EndPass
    \/ SheetEdited
    \/ NewPass

Spec == Init /\ [][Next]_vars

\* the statements of one pass: each of them terminates, so a pass that can
\* take a step takes it
PassStep == LoadPlugins \/ RunPlugin \/ Upload \/ Unlink \/ EndPass

\* one pass of main() with every run() call, upload_file call and unlink
\* returning or raising in finite time
SpecLive == Init /\ [][PassStep]_vars /\ WF_vars(PassStep)

TypeOK ==
    /\ pc \in {"load", "next", "upload", "unlink", "done", "fatal"}
    /\ pass \in {"first", "rerun"}
    /\ files \subseteq Names
    /\ cur \in {None} \cup Names

(* ------------------- the version store on its own -------------------- *)

\* main()'s variables while the tracker is exercised on its own
MainIdle ==
    /\ manifestState = "ok"
    /\ manifest = <<>>
    /\ srcTime = 1
    /\ files = {}
    /\ pass = "first"
    /\ pc = "load"
    /\ imported = {}
    /\ constructed = {}
    /\ loaded_plugins = <<>>
    /\ todo = <<>>
    /\ cur = None
    /\ status = <<>>
    /\ versionUpdates = {}
    /\ prev = NoPrev

InitStore ==
    /\ MainIdle
    /\ store \in [StoreKeys -> {None} \cup Times]
    /\ now \in Times
    /\ ops = <<NoOp, NoOp>>
    /\ RunIdle
    /\ UploadIdle
    /\ ConnIdle

\* a call tracker.set_last_version(filename, version)
SetLastVersion ==
    \E filename \in StoreKeys, version \in Times, storeUp \in BOOLEAN :
        /\ store' = set_last_version(store, filename, version, now, storeUp)
        /\ ops' = <<ops[2],
                    [op |-> "set", name |-> filename, arg |-> version, up |-> storeUp,
                     result |-> IF storeUp THEN "ok" ELSE "raise",
                     marker |-> None,
                     error |-> IF storeUp THEN "none" ELSE OperationalError,
                     before |-> store]>>
        /\ UNCHANGED <<mainVars, runVars, uploadVars, connVars, now>>

\* a call tracker.get_last_version(filename)
GetLastVersion ==
    \E filename \in StoreKeys, storeUp \in BOOLEAN :
        /\ ops' = <<ops[2],
                    [op |-> "get", name |-> filename, arg |-> None, up |-> storeUp,
                     result |-> IF storeUp THEN "ok" ELSE "raise",
                     marker |-> get_last_version(store, filename, storeUp),
                     error |-> IF storeUp THEN "none" ELSE OperationalError,
                     before |-> store]>>
        /\ UNCHANGED <<mainVars, runVars, uploadVars, connVars, store, now>>

\* a call tracker.is_new_version_available(filename, candidate)
IsNewVersionAvailable ==
    \E filename \in StoreKeys, candidate \in Candidates, storeUp \in BOOLEAN :
        /\ ops' = <<ops[2],
                    [op |-> "is_new", name |-> filename, arg |-> candidate,
                     up |-> storeUp,
                     result |-> is_new_version_available(store, filename, candidate, storeUp),
                     marker |-> None,
                     error |-> is_new_version_error(store, filename, candidate, storeUp),
                     before |-> store]>>
        /\ UNCHANGED <<mainVars, runVars, uploadVars, connVars, store, now>>

\* the database clock advances
Tick ==
    /\ now < MaxTime
    /\ now' = now + 1
    /\ UNCHANGED <<mainVars, runVars, uploadVars, connVars, store, ops>>

NextStore ==
    \/ SetLastVersion
    \/ GetLastVersion
    \/ IsNewVersionAvailable
    \/ Tick

SpecStore == InitStore /\ [][NextStore]_vars

(* ---------------------- run() on its own ------------------------------ *)

InitRun ==
    /\ MainIdle
    /\ store \in [StoreKeys -> {None} \cup Times]
    /\ store[OUTPUT_FILEPATH] = None
    /\ now = 1
    /\ ops = <<NoOp, NoOp>>
    /\ runIn \in [self : Instances, sheetTime : Times, env : RunEnvs]
    /\ runOut = NoRunOut
    /\ UploadIdle
    /\ ConnIdle

\* one call of MigrationTracker.run() on the drawn instance
RunCall ==
    /\ ~runOut.ended
    /\ runOut' = [ended |-> TRUE,
                  out |-> run(runIn.self, store, runIn.sheetTime, runIn.env, 1),
                  steps |-> run_steps(runIn.self, store, runIn.sheetTime, runIn.env)]
    /\ UNCHANGED <<mainVars, store, storeVars, connVars, uploadVars, runIn>>

NextRun == RunCall

SpecRun == InitRun /\ [][NextRun]_vars

(* -------------------- upload_file on its own -------------------------- *)

\* the corpora upload_file can find: up to MaxFiles files, display names
\* not necessarily distinct
Corpora ==
    UNION { { { RagFile(i, g[i]) : i \in S } : g \in [S -> DisplayNames] } :
            S \in SUBSET (1..MaxFiles) }

InitUpload ==
    /\ MainIdle
    /\ store = [k \in StoreKeys |-> None]
    /\ now = 1
    /\ ops = <<NoOp, NoOp>>
    /\ RunIdle
    /\ corpus \in Corpora
    /\ nextName = MaxFiles + 1
    /\ tenacity \in BOOLEAN
    /\ call = NoCall
    /\ ConnIdle

\* main() calls upload_file(file_name, local_path)
CallUpload ==
    /\ call.pc \in {"idle", "returned", "raised"}
    /\ call.n < MaxCalls
    /\ \E d \in DisplayNames, p \in LocalPaths :
          call' = [NoCall EXCEPT !.pc = "list", !.d = d, !.p = p, !.attempt = 1,
                                 !.before = corpus, !.n = call.n + 1]
    /\ UNCHANGED <<mainVars, store, storeVars, connVars, runVars, corpus, nextName, tenacity>>

\* vertexai.init, rag.list_corpora, rag.list_files
ListFiles ==
    /\ call.pc = "list"
    /\ \/ call' = [call EXCEPT
                      !.listing = corpus,
                      !.log = Append(@, RagCall("list_files", None, None, "")),
                      !.pc = IF Matches(corpus, call.d) # {} THEN "delete" ELSE "upload"]
       \/ \E e \in ErrorClasses, listed \in BOOLEAN :
             call' = AfterFailure(
                        [call EXCEPT !.log = IF listed
                                             THEN Append(@, RagCall("list_files", None, None, ""))
                                             ELSE @],
                        tenacity, e)
    /\ UNCHANGED <<mainVars, store, storeVars, connVars, runVars, corpus, nextName, tenacity>>

\* rag.delete_file on the first listed file with the display name
DeleteFile ==
    /\ call.pc = "delete"
    /\ \E f \in Matches(call.listing, call.d) :
          LET made == [call EXCEPT !.log = Append(@, RagCall("delete_file", f.name, None, ""))] IN
          \/ /\ corpus' = corpus \ {f}
             /\ call' = [made EXCEPT !.pc = "upload"]
          \/ /\ \E e \in ErrorClasses : call' = AfterFailure(made, tenacity, e)
             /\ UNCHANGED corpus
    /\ UNCHANGED <<mainVars, store, storeVars, connVars, runVars, nextName, tenacity>>

\* rag.upload_file and the return of the new resource name
UploadFile ==
    /\ call.pc = "upload"
    /\ LET made == [call EXCEPT !.log = Append(@, RagCall("upload_file", None, call.p, call.d))] IN
       \/ /\ corpus' = corpus \cup {RagFile(nextName, call.d)}
          /\ nextName' = nextName + 1
          /\ call' = [made EXCEPT !.pc = "returned", !.result = nextName]
       \/ /\ \E e \in ErrorClasses : call' = AfterFailure(made, tenacity, e)
          /\ UNCHANGED <<corpus, nextName>>
    /\ UNCHANGED <<mainVars, store, storeVars, connVars, runVars, tenacity>>

NextUpload == CallUpload \/ ListFiles \/ DeleteFile \/ UploadFile

SpecUpload == InitUpload /\ [][NextUpload]_vars

(* ------------------ FileVersionTracker step by step ------------------- *)

InitConn ==
    /\ MainIdle
    /\ store \in [StoreKeys -> {None} \cup Times]
    /\ store[OUTPUT_FILEPATH] = None
    /\ now \in Times
    /\ ops = <<NoOp, NoOp>>
    /\ RunIdle
    /\ UploadIdle
    /\ conns = {}
    /\ dbcall = NoDbCall

\* a caller starts one of the operations; is_new_version_available parses
\* its candidate first and raises without reaching the store when that fails
BeginOp ==
    /\ dbcall.pc \in {"idle", "returned", "raised"}
    /\ dbcall.n < MaxOps
    /\ \E op \in StoreOps, parses \in BOOLEAN :
          /\ (op # "is_new_version_available" => parses)
          /\ dbcall' = [pc |-> IF parses THEN "connect" ELSE "raised",
                        op |-> op, conn |-> None, failed |-> FALSE,
                        first |-> dbcall.made, made |-> dbcall.made,
                        n |-> dbcall.n + 1]
    /\ UNCHANGED <<mainVars, store, storeVars, runVars, uploadVars, conns>>

\* get_connection up to its yield: psycopg2.connect returns a new
\* connection, or raises before the try block is entered
Connect ==
    /\ dbcall.pc = "connect"
    /\ \/ /\ conns' = conns \cup {dbcall.made + 1}
          /\ dbcall' = [dbcall EXCEPT !.pc = "execute", !.conn = dbcall.made + 1,
                                       !.made = @ + 1]
       \/ /\ dbcall' = [dbcall EXCEPT !.pc = "raised"]
          /\ UNCHANGED conns
    /\ UNCHANGED <<mainVars, store, storeVars, runVars, uploadVars>>

\* conn.cursor() and cursor.execute(query, (filename,))
Execute ==
    /\ dbcall.pc = "execute"
    /\ \/ dbcall' = [dbcall EXCEPT !.pc = IF dbcall.op = "set_last_version"
                                          THEN "commit" ELSE "fetch"]
       \/ dbcall' = [dbcall EXCEPT !.pc = "close", !.failed = TRUE]
    /\ UNCHANGED <<mainVars, store, storeVars, runVars, uploadVars, conns>>

\* cursor.fetchone() and the parse of the stored value
Fetch ==
    /\ dbcall.pc = "fetch"
    /\ \E ok \in BOOLEAN : dbcall' = [dbcall EXCEPT !.pc = "close", !.failed = ~ok]
    /\ UNCHANGED <<mainVars, store, storeVars, runVars, uploadVars, conns>>

\* conn.commit() of set_last_version
Commit ==
    /\ dbcall.pc = "commit"
    /\ \E ok \in BOOLEAN :
          /\ store' = IF ok
                      THEN set_last_version(store, TRACKED_FILENAME, None, now, TRUE)
                      ELSE store
          /\ dbcall' = [dbcall EXCEPT !.pc = "close", !.failed = ~ok]
    /\ UNCHANGED <<mainVars, storeVars, runVars, uploadVars, conns>>

\* the with statement is left: the finally clause of get_connection runs and
\* the operation returns, or the exception goes on to the caller
Close ==
    /\ dbcall.pc = "close"
    /\ conns' = close_connection(conns, dbcall.conn, dbcall.failed)
    /\ dbcall' = [dbcall EXCEPT !.pc = IF dbcall.failed THEN "raised" ELSE "returned"]
    /\ UNCHANGED <<mainVars, store, storeVars, runVars, uploadVars>>

NextConn == BeginOp \/ Connect \/ Execute \/ Fetch \/ Commit \/ Close

SpecConn == InitConn /\ [][NextConn]_vars

(* ------------------------------ claims -------------------------------- *)

Range(q) == { q[i] : i \in 1..Len(q) }

\* main() has left the iteration of plugin n behind
Finished(n) == status[n].runs > 0 /\ ~(cur = n /\ pc \in {"upload", "unlink"})

\* run() of plugin n returned success with a file_path
Produced(n) ==
    status[n].returned /\ status[n].result.success /\ status[n].result.file_path # None

IsTracker(n) == manifest[n].classname = "TrackerSubclass"

\* C1 (as claimed): for every finished invocation of the tracker plugin the
\* marker of its tracked name has been advanced exactly when the result asked
\* for a version update and the upload it required completed; in particular
\* after a pass that uploaded the plugin's artifact set_last_version has been
\* called for the tracked name.
C1_MarkerAdvancedIffUploaded ==
    \A n \in Names :
        IsTracker(n) /\ Finished(n) /\ status[n].returned =>
            /\ (TRACKED_FILENAME \in versionUpdates) <=>
                   (/\ status[n].result.success
                    /\ status[n].result.requires_version_update
                    /\ (status[n].result.file_path # None => status[n].uploadOk))
            /\ (pc = "done" /\ Produced(n) /\ status[n].uploadOk
                    => TRACKED_FILENAME \in versionUpdates)

\* C2 (as claimed): in the pass after one that uploaded the tracker plugin's
\* artifact, with the sheet's last-update time unchanged in between, run()
\* produces no new artifact (a successful result is the skip result) and
\* upload_file is not called.
C2_RerunSkips ==
    \A n \in Names :
        (/\ pass = "rerun"
         /\ IsTracker(n)
         /\ n \in prev.uploaded
         /\ prev.srcTime = srcTime
         /\ status[n].runs > 0)
        => /\ ~Produced(n)
           /\ status[n].uploads = 0
           /\ (status[n].returned /\ status[n].result.success
                  => status[n].fresh = "false")

\* C3: once the mapping is loaded, run() has been invoked exactly once on
\* every plugin of the mapping the loop has visited and never on any other
\* entry, whatever the earlier plugins' outcomes were; when the pass is over
\* the loop has visited them all.
C3_RunOncePerPlugin ==
    pc \in {"next", "upload", "unlink", "done"} =>
        /\ \A n \in Names :
              status[n].runs =
                  IF n \in Range(loaded_plugins) /\ n \notin Range(todo) THEN 1 ELSE 0
        /\ (pc = "done" => todo = <<>>)

\* C3 witness: the pass is over, the first plugin's run() raised and the
\* second plugin was run and uploaded.
C3_Witness ==
    /\ pc = "done"
    /\ Len(loaded_plugins) = 2
    /\ status[loaded_plugins[1]].state = "FailedHard"
    /\ status[loaded_plugins[2]].runs = 1
    /\ status[loaded_plugins[2]].state = "Uploaded"

\* what C4 says of a plugin whose run() returned success with a file_path,
\* apart from the file's absence at the end of the pass
C4_Ordering(n) ==
    /\ status[n].uploads <= 1
    /\ (Finished(n) => status[n].uploads = 1)
    /\ (status[n].uploads = 1 =>
           status[n].uploadArgs =
               <<status[n].result.display_name, status[n].result.file_path>>)
    /\ (status[n].unlinks > 0 => status[n].uploadOk)
    /\ (status[n].result.file_path \notin files => status[n].uploadOk)
    /\ (Finished(n) /\ ~status[n].uploadOk =>
           /\ status[n].result.file_path \in files
           /\ status[n].unlinks = 0
           /\ versionUpdates = {})

C5_SkipPath ==
    \A n \in Names :
        status[n].fresh = "false" =>
            /\ status[n].returned
            /\ status[n].result.success
            /\ status[n].result.file_path = None
            /\ ~status[n].result.requires_version_update
            /\ status[n].created = None
            /\ TempPath(n) \notin files
            /\ status[n].uploads = 0
            /\ status[n].unlinks = 0
            /\ status[n].state = "Skipped"
            /\ versionUpdates = {}

\* C5 witness: a pass is over in which the store reported no new version to
\* a tracker plugin.
C5_Witness ==
    /\ pc = "done"
    /\ \E n \in Names : IsTracker(n) /\ status[n].fresh = "false" /\ status[n].runs = 1

\* C6: a plugin whose run() returned success = false gets no upload_file
\* call, no file deletion (a file its result names stays) and no marker
\* update, and the loop goes on: at the end of the pass every plugin of the
\* mapping was run.
C6_SoftFailure ==
    \A n \in Names :
        status[n].returned /\ status[n].result.success = FALSE =>
            /\ status[n].uploads = 0
            /\ status[n].unlinks = 0
            /\ (cur = n => pc \notin {"upload", "unlink"})
            /\ (status[n].result.file_path # None =>
                   status[n].result.file_path \in files)
            /\ versionUpdates = {}
            /\ (pc = "done" => \A k \in Range(loaded_plugins) : status[k].runs = 1)

\* C6 witness: the first plugin returned success = false with a file_path
\* present, and the second plugin was run after it.
C6_Witness ==
    /\ Len(loaded_plugins) = 2
    /\ status[loaded_plugins[1]].returned
    /\ status[loaded_plugins[1]].result.success = FALSE
    /\ status[loaded_plugins[1]].result.file_path # None
    /\ status[loaded_plugins[2]].runs = 1

\* C7 (as claimed): every invocation of MigrationTracker.run(), with or
\* without a logger and a tracker attached, returns a PluginResult and never
\* raises; a result that is not a success carries an error message.
C7_RunIsTotal ==
    \A n \in Names :
        IsTracker(n) /\ status[n].runs > 0 =>
            /\ ~status[n].raised
            /\ status[n].returned
            /\ (status[n].result.success = FALSE =>
                   status[n].result.error_message # NoMessage)

\* C8: when the manifest was read, load_plugins() did not raise, every
\* enabled entry whose module, class or constructor failed is absent from the
\* mapping and every other enabled entry is present.
C8_RegistryIsolation ==
    manifestState = "ok" /\ pc # "load" =>
        /\ pc # "fatal"
        /\ \A i \in Names :
              manifest[i].enabled =>
                  (i \in Range(loaded_plugins) <=>
                      manifest[i].classname \in {"TestPlugin", "TrackerSubclass", "OtherPlugin"})

\* C8 witness: an enabled entry whose constructor raised is followed by an
\* enabled entry that is in the mapping.
C8_Witness ==
    /\ pc = "next"
    /\ Len(manifest) = 2
    /\ manifest[1].enabled /\ manifest[1].classname = "MigrationTracker"
    /\ manifest[2].enabled /\ manifest[2].classname = "TestPlugin"
    /\ loaded_plugins = <<2>>

\* C9: a disabled entry is never imported, never constructed, never a key of
\* the mapping, and its run() is never invoked.
C9_DisabledExcluded ==
    \A i \in Names :
        ~manifest[i].enabled =>
            /\ i \notin imported
            /\ i \notin constructed
            /\ i \notin Range(loaded_plugins)
            /\ i \notin Range(todo)
            /\ status[i].runs = 0

\* C9 witness: a pass is over whose manifest holds a disabled entry of a
\* class that loads when enabled, next to an enabled entry that was run.
C9_Witness ==
    /\ pc = "done"
    /\ \E i, j \in Names :
          /\ ~manifest[i].enabled /\ manifest[i].classname = "OtherPlugin"
          /\ manifest[j].enabled /\ status[j].runs = 1

\* C10: with a missing or unparsable manifest, load_plugins() raises out of
\* main() before anything is imported or constructed, the mapping stays
\* empty, and no run() and no upload_file call is made.
C10_ManifestFatal ==
    manifestState # "ok" =>
        /\ pc \in {"load", "fatal"}
        /\ imported = {}
        /\ constructed = {}
        /\ loaded_plugins = <<>>
        /\ todo = <<>>
        /\ \A n \in Names : status[n].runs = 0 /\ status[n].uploads = 0

\* C10 witness: main() has ended on an unparsable manifest that lists an
\* enabled, loadable entry.
C10_Witness ==
    /\ pc = "fatal"
    /\ manifestState = "malformed"
    /\ \E i \in Names : manifest[i].enabled /\ manifest[i].classname = "OtherPlugin"

\* the last two calls on the tracker: a set_last_version that returned, then
\* an is_new_version_available on the same name that returned
SetThenIsNew ==
    /\ ops[1].op = "set" /\ ops[1].result = "ok"
    /\ ops[2].op = "is_new" /\ ops[2].result # "raise"
    /\ ops[2].name = ops[1].name

\* C11 (as claimed): for t1 < t2, is_new_version_available(n, t2) right after
\* set_last_version(n, t1) returns true, and is_new_version_available(n, t1)
\* right after set_last_version(n, t2) returns false.
C11_FreshnessMonotone ==
    SetThenIsNew =>
        /\ (ops[1].arg < ops[2].arg => ops[2].result = "true")
        /\ (ops[2].arg < ops[1].arg => ops[2].result = "false")

\* C12: a call of is_new_version_available with a parsable candidate leaves
\* the store as it was; it returns only when the store was reached, and then
\* true exactly when no marker is stored for the name or the candidate is
\* strictly greater than the marker (an equal candidate gives false).
C12_FreshnessDecision ==
    ops[2].op = "is_new" /\ ops[2].arg \in Times =>
        /\ store = ops[2].before
        /\ (ops[2].result # "raise" <=> ops[2].up)
        /\ (ops[2].up =>
               (ops[2].result = "true" <=>
                   (\/ ops[2].before[ops[2].name] = None
                    \/ ops[2].arg > ops[2].before[ops[2].name])))
        /\ ops[2].result \in {"true", "false", "raise"}

\* C12 witness: a candidate equal to the stored marker was answered false.
C12_Witness ==
    /\ ops[2].op = "is_new"
    /\ ops[2].arg \in Times
    /\ ops[2].before[ops[2].name] = ops[2].arg
    /\ ops[2].result = "false"

\* C13 (as claimed): right after set_last_version(n, v) returned,
\* get_last_version(n) returns a marker, also for a name that had none.
C13_SetUpserts ==
    (/\ ops[1].op = "set" /\ ops[1].result = "ok"
     /\ ops[2].op = "get" /\ ops[2].result = "ok"
     /\ ops[2].name = ops[1].name)
    => ops[2].marker # None

\* C14: is_new_version_available with a candidate that does not parse raises
\* the invalid-timestamp error, with or without a stored marker and whether
\* or not the store can be reached; it returns neither false nor true.
C14_InvalidTimestampRejected ==
    ops[2].op = "is_new" /\ ops[2].arg \notin Times =>
        /\ ops[2].result = "raise"
        /\ ops[2].error = InvalidTimestampError
        /\ store = ops[2].before

\* C14 witness: a candidate that does not parse was rejected for a name that
\* has a marker, the store being reachable.
C14_Witness ==
    /\ ops[2].op = "is_new"
    /\ ops[2].arg \notin Times
    /\ ops[2].up
    /\ ops[2].before[ops[2].name] # None
    /\ ops[2].result = "raise"

\* C15 (as claimed): with the store unreachable and a parsable candidate,
\* is_new_version_available raises an error that is not the invalid-timestamp
\* error, and returns no boolean.
C15_StoreFailureDistinct ==
    ops[2].op = "is_new" /\ ops[2].arg \in Times /\ ~ops[2].up =>
        /\ ops[2].result = "raise"
        /\ ops[2].error # InvalidTimestampError

\* the positions of call c among the calls of the ended run()
StepsOf(c) == { i \in 1..Len(runOut.steps) : runOut.steps[i] = c }

\* C16: in one call of run() the freshness check is made at most once, every
\* fetch, transformation and temp-file creation comes after a check that
\* answered true, and when the check answered false or failed none of them
\* is made and no temp file is written.
C16_VersionGate ==
    runOut.ended =>
        /\ Cardinality(StepsOf("should_process")) <= 1
        /\ \A i \in 1..Len(runOut.steps) :
              runOut.steps[i] \in Expensive =>
                  /\ \E j \in StepsOf("should_process") : j < i
                  /\ runOut.out.fresh = "true"
        /\ (runOut.out.fresh \in {"false", "raise"} =>
               /\ \A i \in 1..Len(runOut.steps) : runOut.steps[i] \notin Expensive
               /\ runOut.out.created = None)
        /\ (runOut.out.created # None =>
               StepsOf("create_tmp_file_from_content") # {})

\* C16 witness: a run() that found a new version, fetched, transformed and
\* wrote its temp file.
C16_Witness ==
    /\ runOut.ended
    /\ runOut.out.fresh = "true"
    /\ runOut.out.created # None
    /\ StepsOf("get_all_values") # {}
    /\ StepsOf("create_tmp_file_from_content") # {}

\* the positions of the calls of fn in the current attempt
LogOf(fn) == { i \in 1..Len(call.log) : call.log[i].fn = fn }

\* C17: within one attempt the first call is the listing; delete_file is
\* called at most once, on the resource name of a listed file named d, and
\* before the upload; once the attempt is past the existing-file loop,
\* delete_file has been called if and only if the listing holds a file named
\* d; the upload is called at most once, with path p and display name d.
C17_AttemptOrder ==
    /\ (call.log # <<>> => call.log[1].fn = "list_files")
    /\ Cardinality(LogOf("list_files")) <= 1
    /\ Cardinality(LogOf("delete_file")) <= 1
    /\ Cardinality(LogOf("upload_file")) <= 1
    /\ \A i \in LogOf("delete_file") :
          /\ \E f \in call.listing :
                f.display_name = call.d /\ f.name = call.log[i].name
          /\ \A j \in LogOf("upload_file") : i < j
    /\ ((\A f \in call.listing : f.display_name # call.d) => LogOf("delete_file") = {})
    /\ (call.pc = "upload" \/ LogOf("upload_file") # {} =>
           (LogOf("delete_file") # {} <=> \E f \in call.listing : f.display_name = call.d))
    /\ \A j \in LogOf("upload_file") :
          call.log[j].path = call.p /\ call.log[j].display_name = call.d

\* C17 witness: an attempt that listed a corpus holding a file named d and
\* one with another name, deleted the first and uploaded.
C17_Witness ==
    /\ call.pc = "returned"
    /\ Len(call.log) = 3
    /\ \E f \in call.listing : f.display_name = call.d
    /\ \E f \in call.listing : f.display_name # call.d

\* C18 (as claimed): after upload_file(d, p) has returned, no file that had
\* display name d before the call is left and the corpus holds exactly one
\* file named d.
C18_ReplaceByDisplayName ==
    call.pc = "returned" =>
        /\ \A f \in call.before : f.display_name = call.d => f \notin corpus
        /\ Cardinality({ f \in corpus : f.display_name = call.d }) = 1

\* the failures a further attempt may answer
Transient == {"ServiceUnavailable", "ConnectionError"}

\* C19 (as claimed): a call makes at most 3 attempts, every failed attempt
\* that was followed by another one failed with a transient error, and the
\* error a call ends with is the one of its last attempt.
C19_RetryPolicy ==
    /\ call.attempt <= MaxAttempts
    /\ \A i \in 1..Len(call.errs) : i < call.attempt => call.errs[i] \in Transient
    /\ (call.pc = "raised" =>
           /\ Len(call.errs) = call.attempt
           /\ call.error = call.errs[Len(call.errs)])

\* the plugins whose run() returned a file and whose upload_file or temp-file
\* deletion is still to come
InProgress == { n \in Names : status[n].state = "Running" }

\* C20: the loaded plugins are in the declaration order of their manifest
\* entries; run() of a plugin has started only when every plugin loaded
\* before it has been run and its post-processing (upload_file and temp-file
\* deletion, or the handling of its failure) is over; at most one plugin is
\* between its run() and the end of its post-processing.
C20_Sequential ==
    /\ \A i, j \in 1..Len(loaded_plugins) :
          i < j =>
              /\ loaded_plugins[i] < loaded_plugins[j]
              /\ (status[loaded_plugins[j]].runs > 0 =>
                     /\ status[loaded_plugins[i]].runs > 0
                     /\ status[loaded_plugins[i]].state \notin {"Pending", "Running"})
    /\ Cardinality(InProgress) <= 1
    /\ InProgress \subseteq {cur}
    /\ (InProgress # {} <=> pc \in {"upload", "unlink"})

\* C20 witness: two plugins are loaded, the first has been run, uploaded and
\* cleaned up, and the second is between its run() and its upload.
C20_Witness ==
    /\ Len(loaded_plugins) = 2
    /\ status[loaded_plugins[1]].state = "Uploaded"
    /\ status[loaded_plugins[2]].runs = 1
    /\ pc = "upload"
    /\ cur = loaded_plugins[2]

\* the states an invocation ends in
Terminal ==
    {"Skipped", "Uploaded", "FailedSoft", "FailedHard", "UploadFailed", "UnlinkFailed"}

\* what each state of an invocation says of the plugin's record
StateFacts(n) ==
    LET st == status[n] IN
    CASE st.state = "Pending" -> st.runs = 0
      [] st.state = "Running" ->
            /\ st.returned /\ st.result.success /\ st.result.file_path # None
            /\ cur = n /\ pc \in {"upload", "unlink"}
      [] st.state = "Skipped" ->
            st.returned /\ st.result.success /\ st.result.file_path = None /\ st.uploads = 0
      [] st.state = "FailedSoft" ->
            st.returned /\ st.result.success = FALSE /\ st.uploads = 0
      [] st.state = "FailedHard" -> st.raised /\ st.uploads = 0
      [] st.state = "Uploaded" -> st.uploadOk /\ st.unlinkOk
      [] st.state = "UploadFailed" -> st.uploads = 1 /\ ~st.uploadOk /\ st.unlinks = 0
      [] st.state = "UnlinkFailed" -> st.uploadOk /\ st.unlinks = 1 /\ ~st.unlinkOk
      [] OTHER -> FALSE

\* the moves of one invocation within a pass
StateMove(n) ==
    LET from == status[n].state
        to == status'[n].state
    IN  CASE from = "Pending" ->
                to \in {"Pending", "Running", "Skipped", "FailedSoft", "FailedHard"}
          [] from = "Running" ->
                to \in {"Running", "Uploaded", "UploadFailed", "UnlinkFailed"}
          [] OTHER -> status'[n] = status[n]

\* C21 (as claimed): at the end of a pass every loaded plugin's invocation
\* is in one of the four states Skipped (success, no file_path), Uploaded
\* (upload returned, file deleted), FailedSoft (success = false), FailedHard
\* (run() raised).
C21_FourStates_Claimed ==
    pc = "done" =>
        \A n \in Range(loaded_plugins) :
            LET st == status[n] IN
            \/ st.raised
            \/ st.returned /\ st.result.success = FALSE
            \/ st.returned /\ st.result.success /\ st.result.file_path = None
            \/ st.returned /\ st.result.success /\ st.result.file_path # None
                  /\ st.uploadOk /\ st.unlinkOk

\* C21: a pass of main() ends; every invocation is Pending, Running or in
\* one of six terminal states (the four above, UploadFailed when upload_file
\* raised after run() succeeded, UnlinkFailed when the deletion raised), each
\* with the facts that define it; at the end of the pass every loaded plugin
\* is in a terminal state; within a pass an invocation moves Pending ->
\* Running -> terminal or Pending -> terminal and a terminal state is not
\* left.
C21_StateMachine ==
    /\ [](/\ \A n \in Names : StateFacts(n)
          /\ (pc = "done" => \A n \in Range(loaded_plugins) : status[n].state \in Terminal))
    /\ [][pc # "done" => \A n \in Names : StateMove(n)]_vars
    /\ (pc = "load" ~> pc \in {"done", "fatal"})

\* C21 witness: a pass has ended with one plugin whose upload_file raised
\* after its run() succeeded and one that was uploaded and cleaned up.
C21_Witness ==
    /\ pc = "done"
    /\ \E n \in Range(loaded_plugins) : status[n].state = "UploadFailed"
    /\ \E n \in Range(loaded_plugins) : status[n].state = "Uploaded"

\* C22: no connection is open when no operation is in progress; at most one
\* connection is open, and it is the one the operation in progress opened
\* itself; the statements of an operation run on its own open connection.
C22_ScopedConnections ==
    /\ (dbcall.pc \in {"idle", "returned", "raised"} => conns = {})
    /\ Cardinality(conns) <= 1
    /\ (conns # {} => conns = {dbcall.conn} /\ dbcall.conn > dbcall.first)
    /\ (dbcall.pc \in {"execute", "fetch", "commit", "close"} =>
           dbcall.conn \in conns /\ dbcall.conn > dbcall.first)

\* C22 witness: the second operation opened its connection, failed in its
\* query, fetch or commit, and has raised.
C22_Witness ==
    /\ dbcall.pc = "raised"
    /\ dbcall.failed
    /\ dbcall.n = 2
    /\ dbcall.conn = 2
    /\ conns = {}

\* the classes that implement run()
RunnableKinds == {"MigrationTracker", "TrackerSubclass", "OtherPlugin"}

\* C23 (as claimed): once load_plugins() has returned, every enabled entry
\* whose path and classname resolve to a class implementing run() is in the
\* returned mapping, and at the end of the pass main() has invoked its run().
C23_ResolvedEntriesLoaded ==
    pc \in {"next", "upload", "unlink", "done"} =>
        \A i \in Names :
            (/\ IsEnabled(manifest[i])
             /\ ClassFound(manifest[i])
             /\ manifest[i].classname \in RunnableKinds)
            => /\ i \in Range(loaded_plugins)
               /\ (pc = "done" => status[i].runs > 0)

\* C24 (as claimed): when run() has returned a result after asking the
\* version store, the key it asked with (TRACKED_FILENAME,
\* migration_tracker.py:220) is the display_name of the result.
C24_OneIdentity ==
    (runOut.ended /\ ~runOut.out.raised /\ runOut.out.fresh \in {"true", "false"})
        => runOut.out.result.display_name = TRACKED_FILENAME

\* C25 (as claimed): when a call of upload_file(d, p) has raised, every file
\* that had display name d before the call is still in the corpus.
C25_FailedUploadKeepsContent ==
    call.pc = "raised" =>
        \A f \in call.before : f.display_name = call.d => f \in corpus

\* C26 (as claimed): when a new version is available, nothing fails and the
\* worksheet has no row passing the heuristic, run() returns success = false
\* with error_message "No content generated" and creates no temp file.
C26_EmptySourceNoArtifact ==
    (/\ runOut.ended
     /\ runOut.out.fresh = "true"
     /\ runIn.env.fault = "none"
     /\ runIn.env.rows = 0)
    => /\ ~runOut.out.raised
       /\ runOut.out.result.success = FALSE
       /\ runOut.out.result.error_message = "No content generated"
       /\ runOut.out.result.file_path = None
       /\ runOut.out.created = None

====
